---- MODULE Spec2Model ----
(***************************************************************************)
(* Streaming chat pipeline of src/src/pages/index.tsx: the chat handlers   *)
(* (handleChat, handleRegenerate, stopStreaming, closeChat,                *)
(* openChatWithModel, the Clear button) and the typewriter renderer        *)
(* (appendAssistantText, startTypewriter, the interval callbacks).         *)
(*                                                                         *)
(* Scheduling model: one event loop.  Every action is one run-to-          *)
(* completion step (a user event, a timer callback, or the continuation of *)
(* a handler after an await), including the microtasks it triggers (the    *)
(* rejection of an aborted fetch/read).  React state set in a step is      *)
(* rendered before the next step, so a handler invoked by the user sees    *)
(* the current state; a handler suspended at an await keeps the values its *)
(* closure captured when it was invoked.                                   *)
(* `await chatForm.validateFields()` is such a suspension point: when it   *)
(* resolves, and with what result, is decided by the form library, so      *)
(* other events (a second invocation included) may run before the handler  *)
(* resumes.  The awaits of one response (fetch, resp.text, reader.read)    *)
(* are resolved by the actions of the response.                            *)
(*                                                                         *)
(* Characters are pairs <<r, k>>: the k-th character of the response to    *)
(* request r, so that the origin and the order of every rendered character *)
(* can be observed.                                                        *)
(*                                                                         *)
(* The conversation (Spec, SpecNoOverlap, SpecSerial) sees a response as   *)
(* chunks that carry deltas or none.  What a chunk carries is decided by   *)
(* the read loop, which is modelled on its own (SpecFrames, SpecExtract):  *)
(* the variable rd holds the locals of the loop for one response whose     *)
(* body is a sequence of symbols, and the calls the loop makes.            *)
(***************************************************************************)
EXTENDS Integers, Sequences, FiniteSets, TLC

\* bound: number of handler invocations (send / regenerate) in a run
MaxReq == 2
\* bound: number of characters carried by one response
TextLen == 2
\* bound: handler invocations that may be unfinished at the same time
MaxOpen == 2

\* null of the refs and of the cancellation handle
NULL == 0

Reqs == 1..MaxReq

\* the text of the response to request r
Text(r) == [k \in 1..TextLen |-> <<r, k>>]

\* the (non-blank) prompt of the send that became request r
Prompt(r) == << <<r, 0>> >>

\* the initial value '' of currentTypewriterMessageIdRef
NoId == <<0, "">>

\* `${Date.now()}-user` / `${Date.now()}-assistant`
MsgId(t, role) == <<t, role>>

InFlight == {"fetching", "reading"}

Unfinished == {"validating", "fetching", "reading"}

VARIABLES
  chatVisible,                    \* useState(false)
  activeModel,                    \* useState(null): "none" or "enabled"
  chatMessages,                   \* useState([]): sequence of messages
  chatStreaming,                  \* useState(false)
  chatLoading,                    \* useState(false)
  chatAbortController,            \* useState(null): NULL or the request whose controller it is
  lastUserPrompt,                 \* useState(''): TRUE iff non-empty
  typewriterTimerRef,             \* useRef(null): NULL or an interval handle
  typewriterQueueRef,             \* useRef(''): the backlog
  currentTypewriterMessageIdRef,  \* useRef(''): id being drained
  timers,                         \* the live interval timers of the window (`text`: history, the text of the startTypewriter call)
  req,                            \* the handler invocations and their requests
  nreq,                           \* number of invocations so far
  now,                            \* Date.now()
  handed,                         \* history: texts handed to the renderer, per message id
  stale,                          \* history: characters still in the backlog that were queued when a cancel ran
  rd                              \* the read loop of one response, symbol by symbol: its locals and its calls

\* the variables of the conversation and the renderer
chatVars == <<chatVisible, activeModel, chatMessages, chatStreaming, chatLoading,
              chatAbortController, lastUserPrompt, typewriterTimerRef,
              typewriterQueueRef, currentTypewriterMessageIdRef, timers, req, nreq,
              now, handed, stale>>

vars == <<chatVars, rd>>

reactVars == <<chatVisible, activeModel, chatMessages, chatStreaming,
               chatLoading, chatAbortController, lastUserPrompt>>

rendererVars == <<typewriterTimerRef, typewriterQueueRef,
                  currentTypewriterMessageIdRef, timers>>

histVars == <<handed, stale>>

----------------------------------------------------------------------------
(* Helpers *)

Range(s) == {s[i] : i \in 1..Len(s)}

IsPrefix(s, t) == Len(s) <= Len(t) /\ SubSeq(t, 1, Len(s)) = s

\* window.setInterval returns a handle no live timer has
NewHandle(ts) == CHOOSE h \in 1..(Cardinality(ts) + 1) : \A t \in ts : t.h # h

\* window.clearInterval(h)
clearInterval(ts, h) == {t \in ts : t.h # h}

\* the renderer's refs and the window's timers, as one value
Renderer == [q |-> typewriterQueueRef, cur |-> currentTypewriterMessageIdRef,
             ref |-> typewriterTimerRef, timers |-> timers]

\* `end`: how the invocation ended; `note`: the text its catch block passed
\* to message.error, "" when it passed none; `capMsgs`: the chatMessages of
\* the render whose handleChat was invoked; `body`: the messages of the
\* request body, while the fetch is pending
InitReq == [ph |-> "none", h |-> "none", capCtrl |-> NULL, mid |-> NoId,
            sent |-> 0, rawText |-> FALSE, receivedTokens |-> FALSE,
            end |-> "none", note |-> "", capMsgs |-> <<>>, body |-> <<>>]

\* the fallback text of the catch blocks (a fixed Chinese string, "chat failed")
DefaultError == "chat failed"

\* the values thrown into the catch blocks
AbortError == [name |-> "AbortError", message |-> "The user aborted a request."]

\* fetch or reader.read() rejected by the network
NetworkError == [name |-> "TypeError", message |-> "network error"]

\* validateFields rejects with { values, errorFields }: no message
ValidationError == [name |-> "", message |-> ""]

\* the bodies of a response that is not ok
ErrorBodies == {"", "error body"}

\* throw new Error(text || DefaultError)
StatusError(text) == [name |-> "Error", message |-> IF text # "" THEN text ELSE DefaultError]

\* message.error(e?.message || DefaultError)
messageError(e) == IF e.message # "" THEN e.message ELSE DefaultError

\* the invocation r has returned: its locals are gone, what stays is which
\* handler it was, the message it created, how it ended and what it notified
returned(rq, r, how, note) ==
  [rq EXCEPT ![r] = [InitReq EXCEPT !.ph = "done", !.h = rq[r].h, !.mid = rq[r].mid,
                                    !.end = how, !.note = note]]

\* the invocation r after its catch block ran for the thrown value e
caught(rq, r, e, how) == returned(rq, r, how, messageError(e))

----------------------------------------------------------------------------
(* The typewriter renderer *)

\* appendAssistantText that overwrites the backlog with the new text
appendAssistantText_overwritesBacklog(R, messageId, text) ==
  IF text = <<>> THEN R
  ELSE LET h == NewHandle(R.timers)
       IN [q      |-> text,
           cur    |-> messageId,
           ref    |-> IF R.ref = NULL THEN h ELSE R.ref,
           timers |-> IF R.ref = NULL
                      THEN R.timers \cup {[h |-> h, kind |-> "append", mid |-> NoId, text |-> <<>>]}
                      ELSE R.timers]

\* appendAssistantText(messageId, text): the renderer after the call
appendAssistantText(R, messageId, text) ==
  IF text = <<>> THEN R
  ELSE LET q1 == IF messageId # R.cur THEN <<>> ELSE R.q
           h  == NewHandle(R.timers)
       IN [q      |-> q1 \o text,
           cur    |-> messageId,
           ref    |-> IF R.ref = NULL THEN h ELSE R.ref,
           timers |-> IF R.ref = NULL
                      THEN R.timers \cup {[h |-> h, kind |-> "append", mid |-> NoId, text |-> <<>>]}
                      ELSE R.timers]

\* startTypewriter that installs its interval without clearing the one
\* the handle refers to
startTypewriter_keepsOldTimer(R, messageId, text) ==
  LET h == NewHandle(R.timers)
  IN [q      |-> text,
      cur    |-> messageId,
      ref    |-> h,
      timers |-> R.timers \cup {[h |-> h, kind |-> "start", mid |-> messageId,
                            text |-> text]}]

\* startTypewriter(messageId, text): the renderer after the call
startTypewriter(R, messageId, text) ==
  LET ts == IF R.ref # NULL THEN clearInterval(R.timers, R.ref) ELSE R.timers
      h  == NewHandle(ts)
  IN [q      |-> text,
      cur    |-> messageId,
      ref    |-> h,
      timers |-> ts \cup {[h |-> h, kind |-> "start", mid |-> messageId,
                            text |-> text]}]

\* a timer clearing that leaves the interval and its handle in place
clearTypewriterTimer_keepsTimer(R) == R

\* the timer clearing shared by closeChat and stopStreaming
clearTypewriterTimer(R) ==
  IF R.ref # NULL
  THEN [R EXCEPT !.timers = clearInterval(R.timers, R.ref), !.ref = NULL]
  ELSE R

\* setAssistantText(messageId, text)
setAssistantText(msgs, messageId, text) ==
  [i \in 1..Len(msgs) |->
     IF msgs[i].id = messageId THEN [msgs[i] EXCEPT !.content = text] ELSE msgs[i]]

\* the setChatMessages updater of the interval callbacks
appendChar(msgs, target, char) ==
  [i \in 1..Len(msgs) |->
     IF msgs[i].id = target
     THEN [msgs[i] EXCEPT !.content = Append(msgs[i].content, char)] ELSE msgs[i]]

\* a character leaves the history once it has left the backlog
KeepStale == stale' = stale \cap Range(typewriterQueueRef')

SetRenderer(R) ==
  /\ typewriterQueueRef' = R.q
  /\ currentTypewriterMessageIdRef' = R.cur
  /\ typewriterTimerRef' = R.ref
  /\ timers' = R.timers

\* no response is being read symbol by symbol (`lines`: history, the lines
\* the loop has extracted from the buffer)
IdleReader == [phase |-> "idle", input |-> <<>>, net |-> <<>>, buffer |-> <<>>,
               rawText |-> <<>>, receivedTokens |-> FALSE, doneFromServer |-> FALSE,
               deltas |-> <<>>, fallback |-> <<>>, notified |-> FALSE,
               lines |-> <<>>]

----------------------------------------------------------------------------
InitChat ==
  /\ chatVisible = FALSE
  /\ activeModel = "none"
  /\ chatMessages = <<>>
  /\ chatStreaming = FALSE
  /\ chatLoading = FALSE
  /\ chatAbortController = NULL
  /\ lastUserPrompt = FALSE
  /\ typewriterTimerRef = NULL
  /\ typewriterQueueRef = <<>>
  /\ currentTypewriterMessageIdRef = NoId
  /\ timers = {}
  /\ req = [r \in Reqs |-> InitReq]
  /\ nreq = 0
  /\ now = 1
  /\ handed = [t \in 1..MaxReq |-> <<>>]
  /\ stale = {}

Init == InitChat /\ rd = IdleReader

----------------------------------------------------------------------------
(* Shared pieces of the handlers *)

\* the handler invocations that have not run to their end
Open == {r \in Reqs : req[r].ph \in Unfinished}

\* controller.abort() rejects the pending fetch / read of request c, if any
AbortHits(c) == c # NULL /\ req[c].ph \in InFlight

\* the conversation state as one value, for sequencing the setState calls
React == [streaming |-> chatStreaming, loading |-> chatLoading,
          ctrl |-> chatAbortController]

\* a catch block that leaves the streaming flag as it is
catchFinally_keepsStreaming(S) == [S EXCEPT !.loading = FALSE, !.ctrl = NULL]

\* catch { message.error; setChatStreaming(false) } finally { ... }
catchFinally(S) == [S EXCEPT !.streaming = FALSE, !.loading = FALSE, !.ctrl = NULL]

\* a finally block that leaves the stored controller in place
finallyOnly_keepsController(S) == [S EXCEPT !.loading = FALSE]

\* finally { setChatLoading(false); setChatAbortController(null) }
finallyOnly(S) == [S EXCEPT !.loading = FALSE, !.ctrl = NULL]

\* the state updates of a request whose abort signal fired run after the
\* synchronous updates of the handler that called abort()
afterAbort(hit, S) == IF hit THEN catchFinally(S) ELSE S

SetReact(S) ==
  /\ chatStreaming' = S.streaming
  /\ chatLoading' = S.loading
  /\ chatAbortController' = S.ctrl

\* the requests after controller c was aborted
closeAborted(rq, c) == IF AbortHits(c) THEN caught(rq, c, AbortError, "aborted") ELSE rq

\* Date.now() after a dispatch: two handlers that were pending together may
\* read the same millisecond, later events read a later one
NextNow(r) ==
  IF \E r2 \in Reqs \ {r} : req[r2].ph = "validating" THEN {now, now + 1} ELSE {now + 1}

\* a whitespace character: the text of every response ends with one
IsSpaceChar(c) == c[2] = TextLen

\* !content.trim(): the content is empty or nothing but whitespace
IsBlank(content) == \A i \in 1..Len(content) : IsSpaceChar(content[i])

\* buildMessagesPayload that maps the messages without filtering them
buildMessagesPayload_unfiltered(messages) ==
  [i \in 1..Len(messages) |-> [role |-> messages[i].role, content |-> messages[i].content]]

\* buildMessagesPayload(messages): filter, then map to {role, content}
buildMessagesPayload(messages) ==
  LET kept == SelectSeq(messages, LAMBDA m : ~IsBlank(m.content))
  IN [i \in 1..Len(kept) |-> [role |-> kept[i].role, content |-> kept[i].content]]

assistantMessage(r, t) ==
  [id |-> MsgId(t, "assistant"), role |-> "assistant", content |-> <<>>, by |-> r]

userMessage(r, t) ==
  [id |-> MsgId(t, "user"), role |-> "user", content |-> Prompt(r), by |-> r]

----------------------------------------------------------------------------
(* User operations *)

openChatWithModel ==
  /\ ~chatVisible
  /\ activeModel' = "enabled"
  /\ chatVisible' = TRUE
  /\ chatMessages' = <<>>
  /\ chatStreaming' = FALSE
  /\ lastUserPrompt' = FALSE
  /\ UNCHANGED rd
  /\ UNCHANGED <<chatLoading, chatAbortController, rendererVars, req, nreq, now, histVars>>

closeChat ==
  /\ chatVisible
  /\ LET hit == AbortHits(chatAbortController)
         S   == [React EXCEPT !.streaming = FALSE, !.loading = FALSE]
     IN /\ SetReact(afterAbort(hit, S))
        /\ req' = closeAborted(req, chatAbortController)
  /\ SetRenderer(clearTypewriterTimer(Renderer))
  /\ chatVisible' = FALSE
  /\ stale' = (stale \cup Range(typewriterQueueRef)) \cap Range(typewriterQueueRef')
  /\ UNCHANGED rd
  /\ UNCHANGED <<activeModel, chatMessages, lastUserPrompt, nreq, now, handed>>

\* the body of stopStreaming, shared by the Stop button, the Clear button
\* and handleRegenerate
stopStreaming ==
  /\ LET hit == AbortHits(chatAbortController)
         S   == [React EXCEPT !.streaming = FALSE, !.loading = FALSE]
     IN /\ SetReact(afterAbort(hit, S))
        /\ req' = closeAborted(req, chatAbortController)
  /\ SetRenderer([clearTypewriterTimer(Renderer) EXCEPT !.q = <<>>, !.cur = NoId])
  /\ stale' = (stale \cup Range(typewriterQueueRef)) \cap Range(typewriterQueueRef')

StopButton ==
  /\ chatVisible /\ chatStreaming
  /\ stopStreaming
  /\ UNCHANGED rd
  /\ UNCHANGED <<chatVisible, activeModel, chatMessages, lastUserPrompt, nreq, now, handed>>

ClearButton ==
  /\ chatVisible
  /\ chatMessages' = <<>>
  /\ lastUserPrompt' = FALSE
  /\ stopStreaming
  /\ UNCHANGED rd
  /\ UNCHANGED <<chatVisible, activeModel, nreq, now, handed>>

\* handleChat up to `await chatForm.validateFields()`
handleChatInvoke ==
  /\ chatVisible /\ ~chatStreaming
  /\ activeModel # "none"
  /\ nreq < MaxReq /\ Cardinality(Open) < MaxOpen
  /\ nreq' = nreq + 1
  /\ req' = [req EXCEPT ![nreq + 1] =
               [InitReq EXCEPT !.ph = "validating", !.h = "chat",
                               !.capCtrl = chatAbortController,
                               !.capMsgs = chatMessages]]
  /\ UNCHANGED rd
  /\ UNCHANGED <<reactVars, rendererVars, now, histVars>>

\* validateFields rejects: catch and finally run
handleChatInvalid(r) ==
  /\ req[r].ph = "validating"
  /\ SetReact(catchFinally(React))
  /\ req' = caught(req, r, ValidationError, "invalid")
  /\ UNCHANGED rd
  /\ UNCHANGED <<chatVisible, activeModel, chatMessages, lastUserPrompt,
                 rendererVars, nreq, now, histVars>>

\* the prompt is blank: `return` inside try, finally runs
handleChatBlank(r) ==
  /\ req[r].ph = "validating"
  /\ SetReact(finallyOnly(React))
  /\ req' = returned(req, r, "blank", "")
  /\ UNCHANGED rd
  /\ UNCHANGED <<chatVisible, activeModel, chatMessages, lastUserPrompt,
                 rendererVars, nreq, now, histVars>>

\* handleChat from the abort of the previous controller to the fetch
handleChatSend(r) ==
  /\ req[r].ph = "validating"
  /\ LET c   == req[r].capCtrl
         hit == AbortHits(c)
         S   == [React EXCEPT !.ctrl = r, !.loading = TRUE, !.streaming = TRUE]
     IN /\ SetReact(afterAbort(hit, S))
        /\ req' = [closeAborted(req, c) EXCEPT
                     ![r].ph = "fetching",
                     ![r].mid = MsgId(now, "assistant"),
                     ![r].capMsgs = <<>>,
                     ![r].body = buildMessagesPayload(
                                   Append(req[r].capMsgs, userMessage(r, now)))]
  /\ chatMessages' = chatMessages \o <<userMessage(r, now), assistantMessage(r, now)>>
  /\ lastUserPrompt' = TRUE
  /\ now' \in NextNow(r)
  /\ UNCHANGED rd
  /\ UNCHANGED <<chatVisible, activeModel, rendererVars, nreq, histVars>>

\* a copy of the list that keeps the trailing assistant message
popTrailingAssistant_keepsAnswer(messages) == messages

\* trimmedMessages: a copy of the list, its last element popped if that is
\* an assistant message
popTrailingAssistant(messages) ==
  LET n == Len(messages)
  IN IF n > 0 /\ messages[n].role = "assistant"
     THEN SubSeq(messages, 1, n - 1) ELSE messages

handleRegenerate ==
  /\ chatVisible /\ lastUserPrompt /\ ~chatStreaming
  /\ activeModel # "none"
  /\ nreq < MaxReq /\ Cardinality(Open) < MaxOpen
  /\ UNCHANGED rd
  /\ IF chatStreaming
     THEN /\ stopStreaming
          /\ UNCHANGED <<chatVisible, activeModel, chatMessages, lastUserPrompt,
                         nreq, now, handed>>
     ELSE LET r == nreq + 1
              trimmedMessages == popTrailingAssistant(chatMessages)
          IN /\ chatMessages' = Append(trimmedMessages, assistantMessage(r, now))
             /\ chatStreaming' = TRUE
             /\ chatLoading' = TRUE
             /\ chatAbortController' = r
             /\ nreq' = r
             /\ req' = [req EXCEPT ![r] =
                          [InitReq EXCEPT !.ph = "fetching", !.h = "regen",
                                          !.mid = MsgId(now, "assistant"),
                                          !.body = buildMessagesPayload(trimmedMessages)]]
             /\ now' \in NextNow(r)
             /\ UNCHANGED <<chatVisible, activeModel, lastUserPrompt,
                            rendererVars, histVars>>

----------------------------------------------------------------------------
(* The response of the backend, as seen by the handler of request r *)

\* fetch resolved with resp.ok and a body reader
FetchOk(r) ==
  /\ req[r].ph = "fetching"
  /\ req' = [req EXCEPT ![r].ph = "reading", ![r].body = <<>>]
  /\ UNCHANGED rd
  /\ UNCHANGED <<reactVars, rendererVars, nreq, now, histVars>>

\* what the fetch step can throw: the rejection of fetch, or the Error made
\* from the body of a response that is not ok
FetchErrors == {NetworkError} \cup {StatusError(text) : text \in ErrorBodies}

\* fetch rejected, or !resp.ok: throw e, catch, finally
FetchFail(r, e) ==
  /\ req[r].ph = "fetching"
  /\ SetReact(catchFinally(React))
  /\ req' = caught(req, r, e, "fetchFailed")
  /\ UNCHANGED rd
  /\ UNCHANGED <<chatVisible, activeModel, chatMessages, lastUserPrompt,
                 rendererVars, nreq, now, histVars>>

\* resp.body has no reader: the text is set at once
NoReader(r) ==
  /\ req[r].ph = "fetching"
  /\ \E text \in {<<>>, Text(r)} :
       /\ chatMessages' = setAssistantText(chatMessages, req[r].mid, text)
       /\ handed' = [handed EXCEPT ![req[r].mid[1]] = @ \o text]
  /\ SetReact(finallyOnly([React EXCEPT !.streaming = FALSE]))
  /\ req' = returned(req, r, "completed", "")
  /\ UNCHANGED rd
  /\ UNCHANGED <<chatVisible, activeModel, lastUserPrompt, rendererVars,
                 nreq, now, stale>>

\* a chunk whose complete data: lines carry the next n characters
ReadDelta(r, n) ==
  /\ req[r].ph = "reading"
  /\ n \in 1..(TextLen - req[r].sent)
  /\ LET delta == SubSeq(Text(r), req[r].sent + 1, req[r].sent + n)
     IN /\ SetRenderer(appendAssistantText(Renderer, req[r].mid, delta))
        /\ handed' = [handed EXCEPT ![req[r].mid[1]] = @ \o delta]
  /\ req' = [req EXCEPT ![r].sent = @ + n, ![r].rawText = TRUE,
                        ![r].receivedTokens = TRUE]
  /\ KeepStale
  /\ UNCHANGED rd
  /\ UNCHANGED <<reactVars, nreq, now>>

\* a chunk that completes no data: line with a non-empty delta
ReadNoDelta(r) ==
  /\ req[r].ph = "reading"
  /\ ~req[r].rawText
  /\ req' = [req EXCEPT ![r].rawText = TRUE]
  /\ UNCHANGED rd
  /\ UNCHANGED <<reactVars, rendererVars, nreq, now, histVars>>

\* the reader reports done, or the [DONE] sentinel was parsed
ReadEnd(r) ==
  /\ req[r].ph = "reading"
  /\ IF ~req[r].receivedTokens /\ req[r].rawText
     THEN \E content \in {<<>>, Text(r)} :
            /\ SetRenderer(startTypewriter(Renderer, req[r].mid, content))
            /\ handed' = [handed EXCEPT ![req[r].mid[1]] = @ \o content]
     ELSE UNCHANGED <<rendererVars, handed>>
  /\ SetReact(finallyOnly([React EXCEPT !.streaming = FALSE]))
  /\ req' = returned(req, r, "completed", "")
  /\ KeepStale
  /\ UNCHANGED rd
  /\ UNCHANGED <<chatVisible, activeModel, chatMessages, lastUserPrompt, nreq, now>>

\* reader.read() rejects in the middle of the stream
ReadFail(r) ==
  /\ req[r].ph = "reading"
  /\ SetReact(catchFinally(React))
  /\ req' = caught(req, r, NetworkError, "readFailed")
  /\ UNCHANGED rd
  /\ UNCHANGED <<chatVisible, activeModel, chatMessages, lastUserPrompt,
                 rendererVars, nreq, now, histVars>>

----------------------------------------------------------------------------
(* The interval callbacks *)

\* the callback installed by appendAssistantText
TickAppend(t) ==
  /\ t \in timers /\ t.kind = "append"
  /\ IF typewriterQueueRef = <<>>
     THEN /\ SetRenderer(clearTypewriterTimer(Renderer))
          /\ UNCHANGED chatMessages
     ELSE /\ typewriterQueueRef' = Tail(typewriterQueueRef)
          /\ chatMessages' = appendChar(chatMessages, currentTypewriterMessageIdRef,
                                        Head(typewriterQueueRef))
          /\ UNCHANGED <<typewriterTimerRef, currentTypewriterMessageIdRef, timers>>
  /\ KeepStale
  /\ UNCHANGED rd
  /\ UNCHANGED <<chatVisible, activeModel, chatStreaming, chatLoading,
                 chatAbortController, lastUserPrompt, req, nreq, now, handed>>

\* the callback installed by startTypewriter(messageId, text)
TickStart(t) ==
  /\ t \in timers /\ t.kind = "start"
  /\ IF typewriterQueueRef = <<>>
     THEN /\ SetRenderer(clearTypewriterTimer(Renderer))
          /\ UNCHANGED chatMessages
     ELSE /\ typewriterQueueRef' = Tail(typewriterQueueRef)
          /\ chatMessages' = appendChar(chatMessages, t.mid, Head(typewriterQueueRef))
          /\ UNCHANGED <<typewriterTimerRef, currentTypewriterMessageIdRef, timers>>
  /\ KeepStale
  /\ UNCHANGED rd
  /\ UNCHANGED <<chatVisible, activeModel, chatStreaming, chatLoading,
                 chatAbortController, lastUserPrompt, req, nreq, now, handed>>

----------------------------------------------------------------------------
Next ==
  \/ openChatWithModel
  \/ closeChat
  \/ StopButton
  \/ ClearButton
  \/ handleChatInvoke
  \/ \E r \in Reqs : handleChatInvalid(r)
  \/ \E r \in Reqs : handleChatBlank(r)
  \/ \E r \in Reqs : handleChatSend(r)
  \/ handleRegenerate
  \/ \E r \in Reqs : FetchOk(r)
  \/ \E r \in Reqs : \E e \in FetchErrors : FetchFail(r, e)
  \/ \E r \in Reqs : NoReader(r)
  \/ \E r \in Reqs : \E n \in 1..TextLen : ReadDelta(r, n)
  \/ \E r \in Reqs : ReadNoDelta(r)
  \/ \E r \in Reqs : ReadEnd(r)
  \/ \E r \in Reqs : ReadFail(r)
  \/ \E t \in timers : TickAppend(t)
  \/ \E t \in timers : TickStart(t)

Spec == Init /\ [][Next]_vars

\* one handler at a time: the user invokes send or regenerate only when no
\* earlier invocation is still running
handleChatSerial == Open = {} /\ handleChatInvoke

handleRegenerateSerial == Open = {} /\ handleRegenerate

\* the runs in which no cancel (stop, clear, close chat) is invoked and the
\* handler invocations do not overlap
NextSerial ==
  \/ openChatWithModel
  \/ handleChatSerial
  \/ \E r \in Reqs : handleChatInvalid(r)
  \/ \E r \in Reqs : handleChatBlank(r)
  \/ \E r \in Reqs : handleChatSend(r)
  \/ handleRegenerateSerial
  \/ \E r \in Reqs : FetchOk(r)
  \/ \E r \in Reqs : \E e \in FetchErrors : FetchFail(r, e)
  \/ \E r \in Reqs : NoReader(r)
  \/ \E r \in Reqs : \E n \in 1..TextLen : ReadDelta(r, n)
  \/ \E r \in Reqs : ReadNoDelta(r)
  \/ \E r \in Reqs : ReadEnd(r)
  \/ \E r \in Reqs : ReadFail(r)
  \/ \E t \in timers : TickAppend(t)
  \/ \E t \in timers : TickStart(t)

SpecSerial == Init /\ [][NextSerial]_vars

\* the runs in which the handler invocations do not overlap; stop, clear and
\* close chat are invoked freely
NextNoOverlap ==
  \/ openChatWithModel
  \/ closeChat
  \/ StopButton
  \/ ClearButton
  \/ handleChatSerial
  \/ \E r \in Reqs : handleChatInvalid(r)
  \/ \E r \in Reqs : handleChatBlank(r)
  \/ \E r \in Reqs : handleChatSend(r)
  \/ handleRegenerateSerial
  \/ \E r \in Reqs : FetchOk(r)
  \/ \E r \in Reqs : \E e \in FetchErrors : FetchFail(r, e)
  \/ \E r \in Reqs : NoReader(r)
  \/ \E r \in Reqs : \E n \in 1..TextLen : ReadDelta(r, n)
  \/ \E r \in Reqs : ReadNoDelta(r)
  \/ \E r \in Reqs : ReadEnd(r)
  \/ \E r \in Reqs : ReadFail(r)
  \/ \E t \in timers : TickAppend(t)
  \/ \E t \in timers : TickStart(t)

SpecNoOverlap == Init /\ [][NextNoOverlap]_vars

\* the user sends or regenerates only when the previous turn has ended and
\* its text has drained
handleChatDrained == Open = {} /\ timers = {} /\ handleChatInvoke

handleRegenerateDrained == Open = {} /\ timers = {} /\ handleRegenerate

\* the runs in which every turn is left to drain before the next one starts
\* and no cancel (stop, clear, close chat) is invoked
NextTurnByTurn ==
  \/ openChatWithModel
  \/ handleChatDrained
  \/ \E r \in Reqs : handleChatInvalid(r)
  \/ \E r \in Reqs : handleChatBlank(r)
  \/ \E r \in Reqs : handleChatSend(r)
  \/ handleRegenerateDrained
  \/ \E r \in Reqs : FetchOk(r)
  \/ \E r \in Reqs : \E e \in FetchErrors : FetchFail(r, e)
  \/ \E r \in Reqs : NoReader(r)
  \/ \E r \in Reqs : \E n \in 1..TextLen : ReadDelta(r, n)
  \/ \E r \in Reqs : ReadNoDelta(r)
  \/ \E r \in Reqs : ReadEnd(r)
  \/ \E r \in Reqs : ReadFail(r)
  \/ \E t \in timers : TickAppend(t)
  \/ \E t \in timers : TickStart(t)

SpecTurnByTurn == Init /\ [][NextTurnByTurn]_vars

\* handleDelete of the active model, from the model list behind the chat
\* window: the delete request succeeded (fetchModels leaves activeModel null)
handleDelete ==
  /\ ~chatVisible
  /\ activeModel # "none"
  /\ activeModel' = "none"
  /\ chatMessages' = <<>>
  /\ UNCHANGED rd
  /\ UNCHANGED <<chatVisible, chatStreaming, chatLoading, chatAbortController,
                 lastUserPrompt, rendererVars, req, nreq, now, histVars>>

\* the runs of SpecNoOverlap, with deletion of the active model
NextWithDelete == NextNoOverlap \/ handleDelete

SpecWithDelete == Init /\ [][NextWithDelete]_vars

\* the runs of Spec, with deletion of the active model
NextAll == Next \/ handleDelete

SpecAll == Init /\ [][NextAll]_vars

\* the fetch of request r settles: it resolves with a response, or rejects
FetchSettles(r) ==
  FetchOk(r) \/ (\E e \in FetchErrors : FetchFail(r, e)) \/ NoReader(r)

\* the response of request r ends: the reader reports done or the sentinel
\* is parsed, or reader.read() rejects
ResponseEnds(r) == ReadEnd(r) \/ ReadFail(r)

\* every pending fetch settles and every response that is being read ends
Fairness == \A r \in Reqs : WF_vars(FetchSettles(r)) /\ WF_vars(ResponseEnds(r))

\* the runs in which every turn is left to drain, or is cancelled (stop,
\* clear, close chat), before the next one starts
NextCancelDrained ==
  \/ openChatWithModel
  \/ closeChat
  \/ StopButton
  \/ ClearButton
  \/ handleChatDrained
  \/ \E r \in Reqs : handleChatInvalid(r)
  \/ \E r \in Reqs : handleChatBlank(r)
  \/ \E r \in Reqs : handleChatSend(r)
  \/ handleRegenerateDrained
  \/ \E r \in Reqs : FetchOk(r)
  \/ \E r \in Reqs : \E e \in FetchErrors : FetchFail(r, e)
  \/ \E r \in Reqs : NoReader(r)
  \/ \E r \in Reqs : \E n \in 1..TextLen : ReadDelta(r, n)
  \/ \E r \in Reqs : ReadNoDelta(r)
  \/ \E r \in Reqs : ReadEnd(r)
  \/ \E r \in Reqs : ReadFail(r)
  \/ \E t \in timers : TickAppend(t)
  \/ \E t \in timers : TickStart(t)

\* those runs, when every response ends
SpecDrainedFair == Init /\ [][NextCancelDrained]_vars /\ Fairness

\* the runs of Spec in which every response ends
SpecFair == Spec /\ Fairness

----------------------------------------------------------------------------
(* The read loop of one response, symbol by symbol (handleChat, lines
   438-495; handleRegenerate repeats it).  The body is a sequence of symbols:
   a line break, a whitespace character, the prefix `data:`, the sentinel
   `[DONE]`, a JSON value, or any other character.  The prefix, the sentinel
   and a JSON value are units: a chunk boundary falls between symbols. *)

NL == <<"nl">>

SP == <<"sp">>

DATA == <<"data:">>

DONE == <<"[DONE]">>

\* a character that is neither whitespace nor part of one of the units
Ch(c) == <<"ch", c>>

\* the value of a field the JSON value does not have (undefined or null)
Absent == "undefined"

\* a JSON value with the five fields the code reads: choices[0].delta.content,
\* choices[0].message.content, choices[0].text, text, content
Obj(dc, mc, ctext, tx, ct) == <<"json", dc, mc, ctext, tx, ct>>

\* a string value as the characters the renderer is given
Str(v) == IF v = "" THEN <<>> ELSE <<Ch(v)>>

IsWhitespace(c) == c \in {SP, NL}

RECURSIVE trimEnd(_)
trimEnd(s) ==
  IF s # <<>> /\ IsWhitespace(s[Len(s)]) THEN trimEnd(SubSeq(s, 1, Len(s) - 1)) ELSE s

RECURSIVE trimStart(_)
trimStart(s) ==
  IF s # <<>> /\ IsWhitespace(s[1]) THEN trimStart(Tail(s)) ELSE s

trim(s) == trimStart(trimEnd(s))

\* s.indexOf(c), counted from 1; 0 when c does not occur
indexOf(s, c) ==
  IF \E i \in 1..Len(s) : s[i] = c
  THEN CHOOSE i \in 1..Len(s) : s[i] = c /\ \A j \in 1..(i - 1) : s[j] # c
  ELSE 0

\* line.startsWith('data:')
startsWithData(line) == line # <<>> /\ line[1] = DATA

\* line.replace(/^data:\s*/, '').trim()
payload(line) == trim(Tail(line))

\* JSON.parse(s) does not throw: s is one JSON value, whitespace around it allowed
parses(s) == Len(trim(s)) = 1 /\ trim(s)[1][1] = "json"

\* JSON.parse(s)
parsed(s) == trim(s)[1]

\* a ?? b
nullish(a, b) == IF a # Absent THEN a ELSE b

\* the delta of a parsed frame (lines 461-466)
frameDelta(o) == nullish(o[2], nullish(o[3], nullish(o[5], nullish(o[6], ""))))

\* the content of a parsed body (lines 485-489)
fallbackContent(o, rawText) ==
  LET v == nullish(o[3], nullish(o[4], nullish(o[6], Absent)))
  IN IF v = Absent THEN rawText ELSE Str(v)

\* an append that does not record that a token was received
emit_withoutFlag(st, text) == [st EXCEPT !.deltas = Append(@, text)]

\* receivedTokens = true; appendAssistantText(assistantMessage.id, text)
emit(st, text) == [st EXCEPT !.receivedTokens = TRUE, !.deltas = Append(@, text)]

\* a catch of JSON.parse that drops the payload
parseFailed_dropsPayload(st, data) == st

\* the catch of JSON.parse (lines 471-476)
parseFailed(st, data) == IF data # <<>> THEN emit(st, data) ELSE st

\* a frame handler that takes the sentinel for a line without payload
frame_ignoresSentinel(st, line) ==
  LET data == payload(line)
  IN IF data = <<DONE>> THEN st
     ELSE IF parses(data)
          THEN LET delta == frameDelta(parsed(data))
               IN IF delta # "" THEN emit(st, Str(delta)) ELSE st
          ELSE parseFailed(st, data)

\* one line that starts with data: (lines 454-476)
frame(st, line) ==
  LET data == payload(line)
  IN IF data = <<DONE>> THEN [st EXCEPT !.doneFromServer = TRUE]
     ELSE IF parses(data)
          THEN LET delta == frameDelta(parsed(data))
               IN IF delta # "" THEN emit(st, Str(delta)) ELSE st
          ELSE parseFailed(st, data)

\* one complete line (lines 451-477)
oneLine(st, line) == IF startsWithData(line) THEN frame(st, line) ELSE st

\* the inner while loop (lines 449-479)
RECURSIVE scanLines(_)
scanLines(st) ==
  LET lineBreakIndex == indexOf(st.buffer, NL)
  IN IF lineBreakIndex = 0 THEN st
     ELSE LET line == trimEnd(SubSeq(st.buffer, 1, lineBreakIndex - 1))
              st1  == [st EXCEPT !.buffer = SubSeq(@, lineBreakIndex + 1, Len(@)),
                                 !.lines = Append(@, line)]
              st2  == oneLine(st1, line)
          IN IF st2.doneFromServer THEN st2 ELSE scanLines(st2)

\* the code after the outer loop (lines 482-495)
afterLoop(st) ==
  IF ~st.receivedTokens /\ st.rawText # <<>>
  THEN LET content == IF parses(st.rawText)
                      THEN fallbackContent(parsed(st.rawText), st.rawText)
                      ELSE st.rawText
       IN [st EXCEPT !.fallback = Append(@, content), !.phase = "ended"]
  ELSE [st EXCEPT !.phase = "ended"]

\* the locals of the loop when the body `input` starts to arrive
NewReader(input) == [IdleReader EXCEPT !.phase = "reading", !.input = input, !.net = input]

\* reader.read() resolves with the next n symbols (lines 444-480)
ReadChunk(n) ==
  /\ rd.phase = "reading"
  /\ n \in 1..Len(rd.net)
  /\ LET chunk == SubSeq(rd.net, 1, n)
         st    == scanLines([rd EXCEPT !.net = SubSeq(@, n + 1, Len(@)),
                                       !.rawText = @ \o chunk,
                                       !.buffer = @ \o chunk])
     IN rd' = IF st.doneFromServer THEN afterLoop(st) ELSE st
  /\ UNCHANGED chatVars

\* reader.read() resolves with done: the body has been delivered
ReadDone ==
  /\ rd.phase = "reading"
  /\ rd.net = <<>>
  /\ rd' = afterLoop(rd)
  /\ UNCHANGED chatVars

\* reader.read() rejects: the outer catch shows the notification
ReadReject ==
  /\ rd.phase = "reading"
  /\ rd' = [rd EXCEPT !.phase = "failed", !.notified = TRUE]
  /\ UNCHANGED chatVars

\* bound: number of lines of a body
MaxLines == 3

\* a delta frame as OpenAI-style backends send it
DeltaFrame(t) == Obj(t, Absent, Absent, Absent, Absent)

\* the lines the bodies are made of
FrameLines ==
  { <<DATA, SP, DeltaFrame("a")>>,
    <<DATA, DeltaFrame("b"), SP>>,
    <<DATA, SP, DeltaFrame(Absent)>>,
    <<DATA, SP, Ch("x")>>,
    <<DATA, SP, DONE>>,
    <<Ch(":")>>,
    <<>>,
    <<Obj(Absent, Absent, Absent, Absent, "Hello")>> }

\* the lines ls, each ended by a line break; the last one only if `ended`
RECURSIVE Join(_, _)
Join(ls, ended) ==
  IF ls = <<>> THEN <<>>
  ELSE IF Len(ls) = 1 /\ ~ended THEN ls[1]
  ELSE ls[1] \o <<NL>> \o Join(Tail(ls), ended)

Bodies ==
  {Join(ls, ended) : ls \in UNION {[1..n -> FrameLines] : n \in 0..MaxLines},
                     ended \in BOOLEAN}

\* the length of the longest body: three symbols and a line break per line
MaxBody == 4 * MaxLines

NextFrames ==
  \/ \E n \in 1..MaxBody : ReadChunk(n)
  \/ ReadDone
  \/ ReadReject

\* the read loop applied to every body, cut into chunks in every way
InitFrames == InitChat /\ rd \in {NewReader(input) : input \in Bodies}

SpecFrames == InitFrames /\ [][NextFrames]_vars

\* every JSON value over the five fields
Objects ==
  {Obj(dc, mc, ctext, tx, ct) :
     dc \in {Absent, "", "dc"}, mc \in {Absent, "", "mc"}, ctext \in {Absent, "", "ctext"},
     tx \in {Absent, "", "tx"}, ct \in {Absent, "", "ct"}}

\* the read loop applied to one frame `data: <value>` for every JSON value
InitExtract == InitChat /\ rd \in {NewReader(<<DATA, SP, o, NL>>) : o \in Objects}

SpecExtract == InitExtract /\ [][NextFrames]_vars

\* the read loop applied to a body that is one JSON value, for every JSON value
InitBody == InitChat /\ rd \in {NewReader(<<o>>) : o \in Objects}

SpecBody == InitBody /\ [][NextFrames]_vars

----------------------------------------------------------------------------
TypeOK ==
  /\ chatVisible \in BOOLEAN /\ chatStreaming \in BOOLEAN /\ chatLoading \in BOOLEAN
  /\ chatAbortController \in {NULL} \cup Reqs
  /\ nreq \in 0..MaxReq
  /\ now \in 1..(MaxReq + 1)
  /\ Cardinality(timers) <= 1
  /\ rd.phase \in {"idle", "reading", "ended", "failed"}

----------------------------------------------------------------------------
(* Observations used by the properties *)

Assistants == {i \in 1..Len(chatMessages) : chatMessages[i].role = "assistant"}

\* nothing is pending: no handler is suspended and no interval timer is live
Quiescent == Open = {} /\ timers = {}

\* the characters a step adds to the content of a message that it keeps
NewlyRendered ==
  UNION {Range(chatMessages'[i].content) \ Range(chatMessages[i].content) :
           i \in {j \in 1..Len(chatMessages') :
                    j <= Len(chatMessages) /\ chatMessages'[j].id = chatMessages[j].id}}

\* the requests that are dispatched and not yet completed, failed or aborted
Active == {r \in Reqs : req[r].ph \in InFlight}

----------------------------------------------------------------------------
(* C1: in a run without cancel (stop, clear, close chat), the displayed
   content of every assistant message is a prefix of the concatenation, in
   call order, of the texts handed to the renderer for its message id: no
   character is rendered out of order, skipped or duplicated.
   Checked under SpecSerial. *)
C1_RenderedIsPrefixOfHanded ==
  \A i \in Assistants :
    IsPrefix(chatMessages[i].content, handed[chatMessages[i].id[1]])

(* C2: output of two assistant turns is never interleaved: every character
   in the content of an assistant message comes from the response of the
   request that created that message. *)
C2_NoInterleaving ==
  \A i \in Assistants :
    \A c \in Range(chatMessages[i].content) : c[1] = chatMessages[i].by

(* C3: eventual full delivery without cancel: every text handed to the
   renderer for an assistant message ends up completely in its content.
   Stated on the quiescent states, after which nothing more can be rendered
   into an existing message.  Checked under SpecSerial. *)
C3_EventualFullDelivery ==
  Quiescent =>
    \A i \in Assistants :
      IsPrefix(handed[chatMessages[i].id[1]], chatMessages[i].content)

(* C4: the queue reset inside appendAssistantText is taken only at the start
   of a new assistant turn (the first delta of a response) and only when the
   backlog is empty, so that no undrained text is discarded.
   Checked under SpecSerial. *)
C4_ResetDiscardsNothing ==
  [][\A r \in Reqs : \A n \in 1..TextLen :
       (ReadDelta(r, n) /\ req[r].mid # currentTypewriterMessageIdRef)
         => (req[r].sent = 0 /\ typewriterQueueRef = <<>>)]_vars

(* C5: after stopStreaming (Stop or Clear) or closeChat ran with a non-empty
   backlog, no character that was queued at that moment is appended to any
   message by a later step. *)
C5_CancelStopsEmission ==
  [][NewlyRendered \cap stale = {}]_vars

(* C6: each cancel trigger - stopStreaming (Stop, Clear), closeChat, and the
   start of a new request by handleChat or handleRegenerate - leaves the
   timer handle null and the backlog empty immediately after it runs. *)
C6_CancelClearsRenderer ==
  [][(StopButton \/ ClearButton \/ closeChat \/ handleRegenerate
        \/ \E r \in Reqs : handleChatSend(r))
       => (typewriterTimerRef' = NULL /\ typewriterQueueRef' = <<>>)]_vars

(* C7: when a send starts while an earlier request is still streaming, the
   earlier request is aborted by that step, and once everything has drained
   every assistant message holds text of its own response only. *)
C7_SecondSendAbortsFirst ==
  /\ [][\A r \in Reqs : handleChatSend(r) =>
          \A r2 \in Active \ {r} : req'[r2].ph = "done"]_vars
  /\ [](Quiescent =>
          \A i \in Assistants :
            Range(chatMessages[i].content) \subseteq Range(Text(chatMessages[i].by)))

(* C8: at every moment at most one chat request is active (dispatched and
   not yet completed, failed or aborted). *)
C8_AtMostOneActiveRequest ==
  Cardinality(Active) <= 1

(* C9: a send or regenerate that runs while the conversation is Streaming (a
   request is active or the typewriter is draining) first cancels the prior
   instance - the active request is aborted and the renderer cleared - and
   then starts the new turn: a new empty assistant message is last in the
   list and a new request is dispatched by the same step. *)
C9_NewTurnCancelsPrior ==
  [][\A r \in Reqs :
       ((handleChatSend(r) \/ (handleRegenerate /\ r = nreq'))
          /\ (Active # {} \/ typewriterTimerRef # NULL))
         => /\ \A r2 \in Active : req'[r2].ph = "done"
            /\ typewriterTimerRef' = NULL /\ typewriterQueueRef' = <<>>
            /\ req'[r].ph = "fetching"
            /\ chatMessages'[Len(chatMessages')] = assistantMessage(r, now)]_vars

(* C10: whenever the backlog is non-empty and its drain timer is armed, the
   streaming flag is true: the conversation is never reported Idle while
   text is still being rendered. *)
C10_StreamingWhileDraining ==
  (typewriterQueueRef # <<>> /\ typewriterTimerRef # NULL) => chatStreaming

\* the requests whose response is being consumed and may still append text
Consuming == {r \in Reqs : req[r].ph = "reading"}

(* C11: the timer handle follows the backlog: there is no state with a
   non-empty backlog and no timer, and a timer that is armed with an empty
   backlog after the response has ended does not stay armed - it is the live
   interval timer, whose next tick releases it.
   Checked under SpecNoOverlap. *)
C11_TimerFollowsBacklog ==
  /\ typewriterQueueRef # <<>> => typewriterTimerRef # NULL
  /\ (typewriterTimerRef # NULL /\ typewriterQueueRef = <<>> /\ Consuming = {})
       => \E t \in timers : t.h = typewriterTimerRef

(* C12: at most one interval timer is live, and the stored handle refers to
   it: the handle is null exactly when no timer is live, and a live timer
   carries the handle stored in typewriterTimerRef.
   Checked under SpecNoOverlap. *)
C12_OneLiveTimer ==
  /\ Cardinality(timers) <= 1
  /\ typewriterTimerRef = NULL <=> timers = {}
  /\ \A t \in timers : t.h = typewriterTimerRef

\* startTypewriter has installed its interval for a later turn while the
\* text of an earlier, completed turn was still undrained
C12_Witness ==
  \E t \in timers :
    /\ t.kind = "start" /\ t.h = typewriterTimerRef
    /\ \E i, j \in Assistants :
         /\ i < j /\ chatMessages[j].id = t.mid
         /\ chatMessages[i].id # t.mid
         /\ req[chatMessages[i].by].end = "completed"
         /\ chatMessages[i].content # handed[chatMessages[i].id[1]]

(* C13: cancellation is silent: a request that ended because its abort
   signal fired (stop, clear, close chat, superseded by a new request) has
   shown no error notification.
   Checked under SpecNoOverlap. *)
C13_CancelIsSilent ==
  \A r \in Reqs : req[r].end = "aborted" => req[r].note = ""

(* C14: when fetch rejects or the response is not ok, the step that handles
   the failure shows one error notification - the raw body of the response
   when that is non-empty -, dispatches no request (no retry), and leaves the
   conversation Idle: chatStreaming false, chatLoading false and the stored
   cancellation handle null.
   Checked under SpecNoOverlap. *)
C14_FetchFailureReported ==
  [][\A r \in Reqs : \A e \in FetchErrors :
       FetchFail(r, e) =>
         /\ req[r].note = "" /\ req'[r].note # ""
         /\ \A text \in ErrorBodies \ {""} :
              e = StatusError(text) => req'[r].note = text
         /\ nreq' = nreq
         /\ {r2 \in Reqs : req'[r2].ph \in Unfinished} = Open \ {r}
         /\ ~chatStreaming' /\ ~chatLoading' /\ chatAbortController' = NULL]_vars

\* a response that was not ok has been handled: its body was notified and
\* the conversation is Idle
C14_Witness ==
  \E r \in Reqs :
    /\ req[r].end = "fetchFailed" /\ req[r].note \in ErrorBodies \ {""}
    /\ ~chatStreaming /\ ~chatLoading /\ chatAbortController = NULL

(* C15: after reader.read() failed in the middle of a stream, the content of
   the assistant message of that request does not change any more: no
   character that was still in the backlog when the error occurred is
   rendered by a later step.
   Checked under SpecSerial. *)
C15_NoGrowthAfterReadError ==
  [][\A i \in Assistants :
       (/\ req[chatMessages[i].by].end = "readFailed"
        /\ i <= Len(chatMessages')
        /\ chatMessages'[i].id = chatMessages[i].id)
         => chatMessages'[i].content = chatMessages[i].content]_vars

----------------------------------------------------------------------------
(* The body of a response as the protocol describes it: its complete lines,
   the frames before the sentinel, and the delta each line carries *)

\* the lines of s that are ended by a line break, in order
RECURSIVE CompleteLines(_)
CompleteLines(s) ==
  LET i == indexOf(s, NL)
  IN IF i = 0 THEN <<>>
     ELSE <<SubSeq(s, 1, i - 1)>> \o CompleteLines(SubSeq(s, i + 1, Len(s)))

IsDataLine(l) == startsWithData(trimEnd(l))

IsDoneLine(l) == IsDataLine(l) /\ payload(trimEnd(l)) = <<DONE>>

\* a data: line whose non-empty payload is not JSON
IsMalformed(l) ==
  /\ IsDataLine(l) /\ ~IsDoneLine(l)
  /\ payload(trimEnd(l)) # <<>> /\ ~parses(payload(trimEnd(l)))

\* the complete lines that precede the first data: [DONE] line
Frames(s) ==
  LET ls == CompleteLines(s)
      stop == IF \E i \in 1..Len(ls) : IsDoneLine(ls[i])
              THEN CHOOSE i \in 1..Len(ls) :
                     IsDoneLine(ls[i]) /\ \A j \in 1..(i - 1) : ~IsDoneLine(ls[j])
              ELSE Len(ls) + 1
  IN SubSeq(ls, 1, stop - 1)

\* the delta of one line: the extracted field of a JSON frame, the literal
\* payload of a malformed one, nothing for any other line
LineDelta(l) ==
  IF ~IsDataLine(l) \/ IsDoneLine(l) THEN <<>>
  ELSE LET data == payload(trimEnd(l))
       IN IF parses(data) THEN Str(frameDelta(parsed(data))) ELSE data

\* the number of lines among the first i of ls that carry a non-empty delta
Rank(ls, i) == Cardinality({j \in 1..i : LineDelta(ls[j]) # <<>>})

(* C16: a data: line with a non-empty payload that is not JSON is recovered
   locally: its whole payload is handed to the renderer as one literal delta,
   at its place in the order of the deltas, no error notification is shown,
   and the lines after it are processed as usual.
   Checked under SpecFrames. *)
C16_MalformedFrameIsLiteral ==
  rd.phase = "ended" =>
    LET F == Frames(rd.input)
    IN /\ ~rd.notified
       /\ \A i \in 1..Len(F) :
            IsMalformed(F[i]) =>
              /\ Rank(F, i) <= Len(rd.deltas)
              /\ rd.deltas[Rank(F, i)] = payload(trimEnd(F[i]))
              /\ \A j \in (i + 1)..Len(F) :
                   LineDelta(F[j]) # <<>> =>
                     /\ Rank(F, j) <= Len(rd.deltas)
                     /\ rd.deltas[Rank(F, j)] = LineDelta(F[j])

\* a body with a malformed frame followed by a frame with a delta has been
\* read to its end
C16_Witness ==
  /\ rd.phase = "ended"
  /\ \E i \in 1..Len(Frames(rd.input)) :
       /\ IsMalformed(Frames(rd.input)[i])
       /\ \E j \in (i + 1)..Len(Frames(rd.input)) : LineDelta(Frames(rd.input)[j]) # <<>>
  /\ Len(rd.deltas) >= 2

\* the first value of vs that is a non-empty string, '' when there is none
RECURSIVE FirstNonEmpty(_)
FirstNonEmpty(vs) ==
  IF vs = <<>> THEN ""
  ELSE IF vs[1] \notin {Absent, ""} THEN vs[1] ELSE FirstNonEmpty(Tail(vs))

(* C17: the delta extracted from a JSON frame is the first non-empty value
   among choices[0].delta.content, choices[0].message.content, text and
   content, in that order, and the empty string when none is non-empty: an
   empty string in an earlier field does not hide a non-empty value in a
   later one.  Stated on what the loop hands to the renderer for the frame.
   Checked under SpecExtract. *)
C17_FirstNonEmptyFieldWins ==
  rd.phase = "ended" =>
    LET o == rd.input[3]
        delta == FirstNonEmpty(<<o[2], o[3], o[5], o[6]>>)
    IN rd.deltas = IF delta = "" THEN <<>> ELSE <<Str(delta)>>

\* the non-empty deltas of the lines ls, in order
RECURSIVE Deltas(_)
Deltas(ls) ==
  IF ls = <<>> THEN <<>>
  ELSE (IF LineDelta(ls[1]) # <<>> THEN <<LineDelta(ls[1])>> ELSE <<>>) \o Deltas(Tail(ls))

(* C18: the deltas handed to the renderer are the non-empty deltas of the
   frames that precede the first data: [DONE] line, in their order.  Once
   the sentinel has been parsed the stream is marked complete and the loop
   is over: no later line produces a delta and no further chunk is read.
   Checked under SpecFrames. *)
C18_DeltasUpToSentinel ==
  /\ rd.doneFromServer => rd.phase = "ended"
  /\ rd.phase = "ended" =>
       /\ rd.deltas = Deltas(Frames(rd.input))
       /\ rd.doneFromServer <=> \E l \in Range(CompleteLines(rd.input)) : IsDoneLine(l)

\* a body with a frame, the sentinel and a frame after the sentinel has been
\* read: the loop ended at the sentinel with the first delta handed over
C18_Witness ==
  /\ rd.phase = "ended" /\ rd.doneFromServer
  /\ rd.deltas # <<>>
  /\ LET ls == CompleteLines(rd.input)
     IN \E i \in 1..Len(ls) :
          IsDoneLine(ls[i]) /\ \E j \in (i + 1)..Len(ls) : LineDelta(ls[j]) # <<>>

\* the text after the last line break of s
RECURSIVE Remainder(_)
Remainder(s) ==
  LET i == indexOf(s, NL)
  IN IF i = 0 THEN s ELSE Remainder(SubSeq(s, i + 1, Len(s)))

\* the body s without its i-th complete line
WithoutLine(s, i) ==
  LET ls == CompleteLines(s)
  IN Join(SubSeq(ls, 1, i - 1) \o SubSeq(ls, i + 1, Len(ls)), TRUE) \o Remainder(s)

\* the loop and the code after it, for a body delivered as one chunk
ReadWhole(s) ==
  afterLoop(scanLines([NewReader(s) EXCEPT !.net = <<>>, !.rawText = s, !.buffer = s]))

RECURSIVE Flatten(_)
Flatten(ts) == IF ts = <<>> THEN <<>> ELSE ts[1] \o Flatten(Tail(ts))

\* the content of the assistant message once everything handed to the
\* renderer for this response has been drained
FinalContent(st) == Flatten(st.deltas) \o Flatten(st.fallback)

(* C19: a complete line that does not start with data: is ignored: the
   response read without that line hands the same deltas to the renderer and
   ends with the same message content; and the loop emits at most one delta
   per data: line.
   Checked under SpecFrames. *)
C19_OtherLinesIgnored ==
  rd.phase = "ended" =>
    LET ls == CompleteLines(rd.input)
    IN /\ Len(rd.deltas) <= Cardinality({i \in 1..Len(ls) : IsDataLine(ls[i])})
       /\ \A i \in 1..Len(ls) :
            ~IsDataLine(ls[i]) =>
              LET other == ReadWhole(WithoutLine(rd.input, i))
              IN /\ rd.deltas = other.deltas
                 /\ FinalContent(rd) = FinalContent(other)

\* the whole-body response {"content":"Hello"}
HelloBody == <<Obj(Absent, Absent, Absent, Absent, "Hello")>>

(* C20: the fallback (startTypewriter after the loop) runs exactly when the
   stream has ended with no delta emitted and a non-empty raw body, and then
   once; a body that is not JSON is rendered as it was received and the body
   {"content":"Hello"} ends as the content "Hello"; the append path and the
   batch path are never both used for one response.
   Checked under SpecFrames. *)
C20_FallbackExactlyWhenNoDelta ==
  /\ rd.phase # "ended" => rd.fallback = <<>>
  /\ rd.phase = "ended" =>
       /\ rd.fallback # <<>> <=> (rd.deltas = <<>> /\ rd.rawText # <<>>)
       /\ Len(rd.fallback) <= 1
       /\ (rd.fallback # <<>> /\ ~parses(rd.rawText)) => rd.fallback[1] = rd.rawText
       /\ rd.input = HelloBody => FinalContent(rd) = Str("Hello")
  /\ ~(rd.deltas # <<>> /\ rd.fallback # <<>>)

\* the body {"content":"Hello"} has been read to its end and rendered by
\* the batch path
C20_Witness ==
  /\ rd.phase = "ended" /\ rd.input = HelloBody
  /\ rd.deltas = <<>> /\ rd.fallback = <<Str("Hello")>>

(* C21: the fallback extracts with the field priority of the frame parser:
   for a body that is one JSON value, the text the fallback renders is what
   the extraction of the frame parser yields for that value, and the raw text
   is not used.
   Checked under SpecBody. *)
C21_FallbackSamePriority ==
  rd.phase = "ended" =>
    /\ rd.fallback = <<Str(frameDelta(rd.input[1]))>>
    /\ rd.fallback # <<rd.rawText>>

IsSuffix(s, t) == Len(s) <= Len(t) /\ SubSeq(t, Len(t) - Len(s) + 1, Len(t)) = s

\* the interval of a startTypewriter call after which no renderer call was
\* made: it is live, the backlog is still targeted at its message and holds
\* nothing but the rest of its text
Undisturbed(t) ==
  /\ t \in timers /\ t.kind = "start"
  /\ currentTypewriterMessageIdRef = t.mid
  /\ IsSuffix(typewriterQueueRef, t.text)

(* C22: startTypewriter(messageId, text) rebuilds the content of message
   messageId from an empty rendered prefix: as long as no further renderer
   call is made, the content of the message followed by the backlog is text,
   so that the content is exactly text once the backlog has drained. *)
C22_ReplaceRebuildsContent ==
  \A t \in timers :
    Undisturbed(t) =>
      \A i \in 1..Len(chatMessages) :
        chatMessages[i].id = t.mid =>
          chatMessages[i].content \o typewriterQueueRef = t.text

(* C23: chunk-boundary invariance: however the body is cut into chunks, the
   loop extracts the lines, and the message ends with the content, that it
   extracts and ends with when the body arrives as one chunk.
   Checked under SpecFrames. *)
C23_ChunkInvariance ==
  rd.phase = "ended" =>
    /\ rd.lines = ReadWhole(rd.input).lines
    /\ FinalContent(rd) = FinalContent(ReadWhole(rd.input))

(* C24: reassembly is independent of batching: whatever pieces the text of a
   message is appended in and however the appends interleave with the ticks,
   the content of the message followed by what is still in the backlog for
   it is the concatenation of the pieces appended so far - so the content
   equals that concatenation once the backlog has drained.
   Checked under SpecTurnByTurn. *)
C24_ReassemblyIndependentOfBatching ==
  \A i \in Assistants :
    chatMessages[i].content
        \o (IF currentTypewriterMessageIdRef = chatMessages[i].id
            THEN typewriterQueueRef ELSE <<>>)
      = handed[chatMessages[i].id[1]]

\* the whole text of a response has been appended while it is being read;
\* a part of it is rendered and the rest is still in the backlog
C24_Witness ==
  \E i \in Assistants :
    /\ req[chatMessages[i].by].ph = "reading" /\ req[chatMessages[i].by].sent = TextLen
    /\ chatMessages[i].content # <<>> /\ typewriterQueueRef # <<>>
    /\ \E t \in timers : t.kind = "append"

\* a step of an interval callback
Tick == \E t \in timers : TickAppend(t) \/ TickStart(t)

\* the positions whose message differs between the two states of a step
Changed == {i \in 1..Len(chatMessages) : chatMessages'[i] # chatMessages[i]}

(* C25: only the trailing assistant message is mutated by streaming: a drain
   tick keeps the list as long as it was, changes the content of at most one
   message, and a message it changes is the last of the list and has role
   assistant. *)
C25_OnlyTrailingAssistantMutated ==
  [][Tick =>
       /\ Len(chatMessages') = Len(chatMessages)
       /\ Cardinality(Changed) <= 1
       /\ \A i \in Changed :
            i = Len(chatMessages) /\ chatMessages[i].role = "assistant"]_vars

(* C26: message ids are unique: in every reachable state the messages of the
   conversation have pairwise distinct ids, the messages created by two
   handlers that read the same clock value included. *)
C26_MessageIdsUnique ==
  \A i, j \in 1..Len(chatMessages) :
    chatMessages[i].id = chatMessages[j].id => i = j

\* the Idle state of the conversation
Idle == ~chatStreaming /\ ~chatLoading /\ chatAbortController = NULL

\* a step that dispatches a request: a send or a regenerate
Dispatch == (\E r \in Reqs : handleChatSend(r)) \/ handleRegenerate

(* C27: every conversation instance returns to Idle: every dispatched
   request whose response ends (completion, transport error or abort) ends
   in a state with chatStreaming false, chatLoading false and a null
   cancellation handle; when the responses end, a conversation with a
   request in flight eventually has none and is Idle; and only a send or a
   regenerate takes the state out of Idle.  Checked under SpecDrainedFair. *)
C27_ReturnsToIdle ==
  /\ (Active # {}) ~> (Active = {} /\ Idle)
  /\ [][\A r \in Reqs : (req[r].ph \in InFlight /\ req'[r].ph = "done") => Idle']_vars
  /\ [][Idle /\ ~Idle' => Dispatch]_vars

\* one request was aborted by a cancel, a later one ran to completion, and
\* the conversation is Idle
C27_Witness ==
  /\ Idle
  /\ \E r1, r2 \in Reqs :
       /\ r1 < r2
       /\ req[r1].end = "aborted"
       /\ req[r2].end = "completed"

(* C28: a drain tick with a non-empty backlog removes exactly the first
   character of the backlog and appends exactly that character to the
   content of the message the backlog is currently targeted at, and changes
   nothing else; a drain tick with an empty backlog clears and releases the
   timer and changes no message. *)
C28_TickEffect ==
  [][\A t \in timers :
       TickAppend(t) \/ TickStart(t) =>
         IF typewriterQueueRef # <<>>
         THEN /\ typewriterQueueRef' = Tail(typewriterQueueRef)
              /\ chatMessages' = appendChar(chatMessages, currentTypewriterMessageIdRef,
                                            Head(typewriterQueueRef))
              /\ UNCHANGED <<typewriterTimerRef, currentTypewriterMessageIdRef, timers>>
         ELSE /\ t \notin timers'
              /\ typewriterTimerRef' = NULL
              /\ UNCHANGED <<chatMessages, typewriterQueueRef>>]_vars

\* the {role, content} pairs of the messages whose content is not blank, in
\* the order of the list
RECURSIVE NonBlankPairs(_)
NonBlankPairs(msgs) ==
  IF msgs = <<>> THEN <<>>
  ELSE (IF \E i \in 1..Len(msgs[1].content) : ~IsSpaceChar(msgs[1].content[i])
        THEN <<[role |-> msgs[1].role, content |-> msgs[1].content]>>
        ELSE <<>>) \o NonBlankPairs(Tail(msgs))

\* request r is dispatched by this step
Dispatched(r) == req[r].ph # "fetching" /\ req'[r].ph = "fetching"

(* C29: the body of every chat request holds, in conversation order, exactly
   the {role, content} pairs of the messages of the conversation whose
   content is not blank; for a send the list ends with the new user prompt;
   the new empty assistant placeholder is not part of it. *)
C29_RequestBody ==
  [][\A r \in Reqs :
       Dispatched(r) =>
         /\ req'[r].body = NonBlankPairs(chatMessages')
         /\ req'[r].h = "chat" =>
              /\ req'[r].body # <<>>
              /\ req'[r].body[Len(req'[r].body)] = [role |-> "user", content |-> Prompt(r)]
         /\ \A i \in 1..Len(req'[r].body) : req'[r].body[i].content # <<>>]_vars

(* C30: when a request is aborted because a newer request was started, the
   catch/finally path of the aborted request leaves the state of the newer
   request untouched: after the step chatStreaming and chatLoading are true
   and the stored cancellation handle is the controller of the newer
   request, so that a later stopStreaming aborts the newer request. *)
C30_AbortedRequestLeavesNewerState ==
  [][\A r \in Reqs :
       handleChatSend(r) /\ AbortHits(req[r].capCtrl) =>
         /\ req'[req[r].capCtrl].end = "aborted"
         /\ req'[r].ph = "fetching"
         /\ chatStreaming' /\ chatLoading'
         /\ chatAbortController' = r]_vars

\* a response made only of data: frames with a JSON payload and terminated
\* by the line data: [DONE]
FramedStream(s) ==
  LET ls == CompleteLines(s)
  IN /\ ls # <<>> /\ Remainder(s) = <<>>
     /\ IsDoneLine(ls[Len(ls)])
     /\ \A i \in 1..(Len(ls) - 1) :
          IsDataLine(ls[i]) /\ ~IsDoneLine(ls[i]) /\ parses(payload(trimEnd(ls[i])))

\* a symbol of the protocol framing: the prefix, the sentinel, a raw JSON
\* value or a line break
IsFraming(c) == c \in {DATA, DONE, NL} \/ c[1] = "json"

(* C31: protocol framing never leaks into a message: for a response made
   only of data: frames and terminated by data: [DONE] - frames with empty
   deltas and the sentinel alone included - the final content of the
   assistant message is the extracted delta text and holds no data: prefix,
   no raw JSON and no [DONE] sentinel.
   Checked under SpecFrames. *)
C31_FramingNeverLeaks ==
  (rd.phase = "ended" /\ FramedStream(rd.input)) =>
    /\ FinalContent(rd) = Flatten(Deltas(Frames(rd.input)))
    /\ \A i \in 1..Len(FinalContent(rd)) : ~IsFraming(FinalContent(rd)[i])

\* the lines of a body that ended without a sentinel: its complete lines and
\* the text after the last line break as a final line
LinesAtEnd(s) == CompleteLines(s) \o <<Remainder(s)>>

(* C32: no received frame is lost at the end of the stream: while the
   response is being read, the text after the last line break stays in the
   buffer and only the complete lines have been parsed; when the stream ends
   without a sentinel, a final data: line that lacks its line break is
   parsed as well and its delta is handed to the renderer.
   Checked under SpecFrames. *)
C32_NoFrameLostAtEnd ==
  /\ rd.phase = "reading" =>
       /\ rd.buffer = Remainder(rd.rawText)
       /\ rd.deltas = Deltas(CompleteLines(rd.rawText))
  /\ (rd.phase = "ended" /\ ~rd.doneFromServer) =>
       rd.deltas = Deltas(LinesAtEnd(rd.input))

(* C33: whenever a request is dispatched, every assistant turn in its
   payload carries the complete text received from the backend for that turn
   (everything handed to the renderer for one of the assistant messages),
   never a partially rendered prefix - also when the user sends or
   regenerates while the previous answer is still being typed out. *)
C33_PayloadCarriesCompleteTurns ==
  [][\A r \in Reqs :
       Dispatched(r) =>
         \A i \in 1..Len(req'[r].body) :
           req'[r].body[i].role = "assistant" =>
             \E j \in Assistants :
               req'[r].body[i].content = handed[chatMessages[j].id[1]]]_vars

\* the number of messages a regenerate keeps: all but a trailing assistant
\* message
Kept ==
  IF chatMessages # <<>> /\ chatMessages[Len(chatMessages)].role = "assistant"
  THEN Len(chatMessages) - 1 ELSE Len(chatMessages)

(* C34: regenerate, invoked while not streaming, replaces the trailing
   assistant message: the new list is the previous list without its last
   assistant message, followed by one new assistant message with empty
   content; every other message keeps its id, role and content; the
   payload of the request is made of the kept messages and does not contain
   the replaced answer.  Checked under SpecNoOverlap. *)
C34_RegenerateReplacesAnswer ==
  [][(handleRegenerate /\ ~chatStreaming) =>
       /\ Len(chatMessages') = Kept + 1
       /\ \A i \in 1..Kept : chatMessages'[i] = chatMessages[i]
       /\ chatMessages'[Kept + 1].role = "assistant"
       /\ chatMessages'[Kept + 1].content = <<>>
       /\ req'[nreq'].ph = "fetching"
       /\ req'[nreq'].body = NonBlankPairs(SubSeq(chatMessages, 1, Kept))
       /\ \A i \in (Kept + 1)..Len(chatMessages) :
            chatMessages[i].content # <<>> =>
              \A k \in 1..Len(req'[nreq'].body) :
                req'[nreq'].body[k].content # chatMessages[i].content]_vars

\* a regenerate has replaced an answer that had received text: its request
\* is pending, the list is the prompt and the new empty message, and the
\* payload is the prompt alone
C34_Witness ==
  \E r \in Reqs :
    /\ req[r].h = "regen" /\ req[r].ph = "fetching"
    /\ Len(chatMessages) = 2
    /\ chatMessages[1].role = "user"
    /\ chatMessages[2] = [id |-> req[r].mid, role |-> "assistant", content |-> <<>>, by |-> r]
    /\ req[r].body = <<[role |-> "user", content |-> chatMessages[1].content]>>
    /\ \E t \in 1..MaxReq : handed[t] # <<>>

(* C35: in every reachable state the message list is empty or alternates
   strictly between user and assistant messages, starting with a user
   message and ending with an assistant message - after any sequence of
   open, send, regenerate, stop, clear, close and model deletion.
   Checked under SpecWithDelete. *)
C35_ListAlternates ==
  /\ Len(chatMessages) % 2 = 0
  /\ \A i \in 1..Len(chatMessages) :
       chatMessages[i].role = IF i % 2 = 1 THEN "user" ELSE "assistant"

\* a send was stopped and its answer regenerated: the list is the prompt
\* and the new answer
C35_Witness ==
  \E r1, r2 \in Reqs :
    /\ req[r1].h = "chat" /\ req[r1].end = "aborted"
    /\ req[r2].h = "regen" /\ req[r2].ph \in InFlight
    /\ Len(chatMessages) = 2
    /\ chatMessages[1].by = r1 /\ chatMessages[2].by = r2

\* a send that is rejected after validateFields: the prompt is nothing but
\* whitespace, or it is empty and the validation fails
Rejected(r) == handleChatBlank(r) \/ handleChatInvalid(r)

(* C36: a rejected invocation has no effect on the conversation: a send with
   a blank prompt dispatches no request and leaves the message list, the
   streaming and loading flags, the cancellation handle and the renderer
   state unchanged.  (The rejections for a missing or disabled model and for
   a regenerate without model or prompt return before any statement that
   writes state.) *)
C36_RejectedInvocationHasNoEffect ==
  [][\A r \in Reqs :
       Rejected(r) =>
         /\ UNCHANGED <<chatMessages, chatStreaming, chatLoading, chatAbortController>>
         /\ UNCHANGED rendererVars
         /\ \A r2 \in Reqs : req'[r2].ph \in InFlight => req[r2].ph \in InFlight]_vars

\* a live interval fires again and again
TimerFairness == WF_vars(Tick)

\* the runs of SpecSerial in which the timers fire
SpecSerialTicking == SpecSerial /\ TimerFairness

\* the runs of Spec in which the timers fire
SpecTicking == Spec /\ TimerFairness

(* C37: the drain timer never runs forever: when the timers fire fairly, a
   non-empty backlog eventually becomes empty, and an armed timer is
   eventually cleared with its handle reset to null and the backlog empty -
   for the timers of appendAssistantText and of startTypewriter alike.
   Checked under SpecSerialTicking. *)
C37_TimerEventuallyCleared ==
  /\ (typewriterQueueRef # <<>>) ~> (typewriterQueueRef = <<>>)
  /\ \A kind \in {"append", "start"} :
       (\E t \in timers : t.kind = kind)
         ~> (timers = {} /\ typewriterTimerRef = NULL /\ typewriterQueueRef = <<>>)

\* the interval of a startTypewriter call has drained its text into the
\* message and will clear itself at its next tick
C37_Witness ==
  \E t \in timers :
    /\ t.kind = "start" /\ t.text # <<>>
    /\ typewriterTimerRef = t.h
    /\ typewriterQueueRef = <<>>
    /\ \E i \in Assistants : chatMessages[i].id = t.mid /\ chatMessages[i].content = t.text

====
